---- MODULE Spec2Model ----
(***************************************************************************)
(* Model of DistillationTests/DistilledMambaSentenceClassification.py:     *)
(* the teacher fine-tuning loop (TeacherTrainer), the distillation loop    *)
(* (OptimizedDistillationTrainer), the distillation loss (compute_loss),   *)
(* the parameter freezing of MambaForSequenceClassification.__init__ and   *)
(* the per-class prediction reports.                                       *)
(*                                                                         *)
(* Each unit has its own specification over its own variables; the         *)
(* variables of the other units stay at their idle values.                 *)
(*                                                                         *)
(* Conventions.  Model weights are opaque: a weight tensor map is          *)
(* identified by the number of optimizer steps that produced it.  An       *)
(* accuracy total_correct / total_samples is kept as its numerator over    *)
(* the fixed denominator (the evaluation set does not change between       *)
(* epochs), so comparing accuracies is comparing numerators.               *)
(***************************************************************************)
EXTENDS Integers, Sequences, FiniteSets

\* ------------------------------------------------------------------ bounds
\* num_epochs given to TeacherTrainer (main passes 10).
TeacherEpochs == 6
\* len(train_dataloader): batches per epoch of the teacher loop.
TeacherBatches == 1
\* Number of samples of the evaluation set (total_samples), at least 1.
EvalSamples == 3
\* Largest gradient_accumulation_steps given to OptimizedDistillationTrainer.
MaxAccumulation == 4
\* Largest num_epochs given to OptimizedDistillationTrainer (main passes 3).
DistillEpochs == 2
\* Largest len(train_dataloader) of the distillation loop.
DistillBatches == 9
\* Largest number of parameter tensors of the base model.
MaxParams == 5
\* Largest number of samples of the evaluation set of a prediction report.
ReportSamples == 3
\* batch_size of the evaluation loader of a prediction report (main passes 8).
ReportBatchSize == 2
\* Largest temperature given to compute_loss (the default is 2.0).
MaxTemperature == 3
\* alpha is given to compute_loss as k / AlphaSteps, k in 0..AlphaSteps.
AlphaSteps == 2

\* ------------------------------------------------------- program constants
\* early_stopping_patience = 3 (TeacherTrainer.train).
early_stopping_patience == 3

\* "No file": SAVE_DIR/best_teacher.pth has not been written.
NoFile == -1

\* NUM_LABELS = 6
NUM_LABELS == 6

VARIABLES
    \* ---- TeacherTrainer
    tpc,                     \* position in TeacherTrainer.train
    epoch,                   \* loop variable of `for epoch in range(num_epochs)`
    step,                    \* batches of the current epoch already processed
    eval_acc,                \* numerator of the last evaluate() result
    best_eval_acc,           \* numerator of best_eval_acc
    early_stopping_counter,
    model_weights,           \* teacher weights: optimizer steps applied so far
    best_teacher_pth,        \* weights stored in best_teacher.pth, or NoFile
    returned_acc,            \* value returned by train(), -1 before it returns
    accs,                    \* history: evaluate() result of every epoch run
    epoch_end_weights,       \* history: teacher weights at the end of every epoch
    saves,                   \* history: save_model() calls made by this train()
    calls,                   \* train() calls made on the trainer so far
    first_call,              \* history: best accuracy of the first call, and the
                             \* weights at the end of the epochs that reached it
    \* ---- OptimizedDistillationTrainer
    dpc,                     \* position in OptimizedDistillationTrainer.train
    gradient_accumulation_steps,
    num_epochs,
    num_batches,             \* len(train_dataloader)
    num_training_steps,      \* as given to get_scheduler
    num_warmup_steps,        \* as given to get_scheduler
    d_epoch,                 \* loop variable of `for epoch in range(num_epochs)`
    d_step,                  \* loop variable of `for step, batch in enumerate(...)`
    mode,                    \* mode[m]: "train" or "eval", m the teacher or the student
    weights,                 \* weights[m]: optimizer steps applied to m's weights
    grad,                    \* grad[m]: the losses whose gradients are summed in m
    teacher_outputs,         \* batch whose teacher logits are held, -1 for none
    student_outputs,         \* batch whose student logits are held, -1 for none
    loss,                    \* the loss of the current batch, <<>> for none
    scheduler_steps,         \* scheduler.step() calls so far
    best_model_pth,          \* weights stored in best_model.pth, or NoFile
    last_step_grad,          \* history: the student's .grad at the last step()
    last_step_batch,         \* history: the batch at which it was taken, -1 for none
    teacher_fwd_modes,       \* history: the teacher's modes at its forward passes
    \* ---- MambaForSequenceClassification.__init__, TeacherTrainer.__init__
    fpc,                     \* position in the construction
    initial_requires_grad,   \* requires_grad of base_model.parameters() as given
    requires_grad,           \* requires_grad of base_model.parameters(), in order
    freeze_next,             \* position of the freezing loop in its slice
    head_params,             \* the tensors of projection and classifier
    param_groups,            \* the optimizer's parameter groups
    \* ---- the per-class prediction reports
    rpc,                     \* position in the report code
    eval_set,                \* number of samples of the evaluation set
    batch_start,             \* samples of the evaluation set in earlier batches
    in_batch,                \* predictions of the current batch already tallied
    label_counts,            \* label_counts, <<>> while the name is unbound
    total_samples,
    reports,                 \* history: the distributions printed so far
    \* ---- compute_loss
    lpc,                     \* "call" before compute_loss runs, "done" after
    student_logits,          \* one row of logits per sample of the batch
    teacher_logits,
    labels,                  \* one class index per sample, from 0
    temperature,
    alpha,
    loss_value               \* the value compute_loss returned

teacherVars == <<tpc, epoch, step, eval_acc, best_eval_acc, early_stopping_counter,
                 model_weights, best_teacher_pth, returned_acc, accs,
                 epoch_end_weights, saves, calls,
                 first_call>>

distillVars == <<dpc, gradient_accumulation_steps, num_epochs, num_batches,
                 num_training_steps, num_warmup_steps, d_epoch, d_step, mode, weights,
                 grad, teacher_outputs, student_outputs, loss, scheduler_steps,
                 best_model_pth, last_step_grad, last_step_batch, teacher_fwd_modes>>

freezeVars == <<fpc, initial_requires_grad, requires_grad, freeze_next, head_params,
                param_groups>>

reportVars == <<rpc, eval_set, batch_start, in_batch, label_counts, total_samples,
                reports>>

lossVars == <<lpc, student_logits, teacher_logits, labels, temperature, alpha,
              loss_value>>

vars == <<teacherVars, distillVars, freezeVars, reportVars, lossVars>>

\* What the steps of one unit leave alone: the other units.
TeacherFrame == UNCHANGED <<distillVars, freezeVars, reportVars, lossVars>>

DistillFrame == UNCHANGED <<teacherVars, freezeVars, reportVars, lossVars>>

FreezeFrame == UNCHANGED <<teacherVars, distillVars, reportVars, lossVars>>

ReportFrame == UNCHANGED <<teacherVars, distillVars, freezeVars, lossVars>>

LossFrame == UNCHANGED <<teacherVars, distillVars, freezeVars, reportVars>>

\* ---------------------------------------------------------------- helpers
RECURSIVE SeqMax(_)
SeqMax(s) ==
    IF s = <<>> THEN 0
    ELSE LET m == SeqMax(Tail(s)) IN IF Head(s) > m THEN Head(s) ELSE m

\* The weights w[i] at the end of the epochs i whose accuracy h[i] is the largest
\* of history h.
BestEpochWeights(h, w) == {w[i] : i \in {j \in DOMAIN h : h[j] = SeqMax(h)}}

\* ------------------------------------------------------- TeacherTrainer
\* State after TeacherTrainer.__init__: nothing trained, nothing saved.
TeacherIdle ==
    /\ tpc = "constructed"
    /\ epoch = 0
    /\ step = 0
    /\ eval_acc = 0
    /\ best_eval_acc = 0
    /\ early_stopping_counter = 0
    /\ model_weights = 0
    /\ best_teacher_pth = NoFile
    /\ returned_acc = -1
    /\ accs = <<>>
    /\ epoch_end_weights = <<>>
    /\ saves = 0
    /\ calls = 0
    /\ first_call = [best |-> 0, weights |-> {}]

\* `if eval_acc > best_eval_acc` (mutant: a non-strict comparison).
ImprovesNonStrict(acc, best) == acc >= best

Improves(acc, best) == acc > best

\* `if early_stopping_counter >= early_stopping_patience: break`
StopTriggered(counter) == counter >= early_stopping_patience

\* torch.save(self.model.state_dict(), best_teacher.pth): the file takes the
\* current weights.
SaveModel(file, w) == w

\* The first lines of train(): best_eval_acc = 0, early_stopping_counter = 0.
\* The weights, the optimizer and the checkpoint file are as the caller left
\* them; the histories start anew with each call.
EnterTrain ==
    /\ tpc' = "epoch_begin"
    /\ epoch' = 0
    /\ step' = 0
    /\ best_eval_acc' = 0
    /\ early_stopping_counter' = 0
    /\ accs' = <<>>
    /\ epoch_end_weights' = <<>>
    /\ saves' = 0
    /\ calls' = calls + 1
    /\ UNCHANGED <<eval_acc, model_weights, best_teacher_pth, returned_acc>>
    /\ TeacherFrame

\* train() is called on the trainer as constructed
\* (main: best_teacher_acc = teacher_trainer.train()).
CallTrain ==
    /\ tpc = "constructed"
    /\ EnterTrain
    /\ UNCHANGED first_call

\* main calls train() a second time on the same trainer, right after the first
\* call returned.
CallTrainAgain ==
    /\ tpc = "returned"
    /\ calls = 1
    /\ EnterTrain
    /\ first_call' = [best |-> SeqMax(accs),
                      weights |-> BestEpochWeights(accs, epoch_end_weights)]

\* main: teacher_model.load_state_dict(torch.load(best_teacher.pth)), after the
\* second call returned.  torch.load raises FileNotFoundError if the file was
\* never written.
MainLoadTeacher ==
    /\ tpc = "returned"
    /\ calls = 2
    /\ IF best_teacher_pth = NoFile
         THEN /\ tpc' = "load_failed"
              /\ UNCHANGED model_weights
         ELSE /\ tpc' = "loaded"
              /\ model_weights' = best_teacher_pth
    /\ UNCHANGED <<epoch, step, eval_acc, best_eval_acc, early_stopping_counter,
                   best_teacher_pth, returned_acc, accs, epoch_end_weights, saves,
                   calls,
                   first_call>>
    /\ TeacherFrame

\* Head of `for epoch in range(self.num_epochs)`: the next epoch starts, or the
\* range is exhausted and the loop is left.
EpochBegin ==
    /\ tpc = "epoch_begin"
    /\ IF epoch < TeacherEpochs
         THEN /\ tpc' = "batches"
              /\ step' = 0
         ELSE /\ tpc' = "return"
              /\ UNCHANGED step
    /\ UNCHANGED <<epoch, eval_acc, best_eval_acc, early_stopping_counter,
                   model_weights, best_teacher_pth, returned_acc, accs,
                   epoch_end_weights, saves, calls,
                   first_call>>
    /\ TeacherFrame

\* One iteration of the batch loop: forward, backward, clip, optimizer.step,
\* scheduler.step, zero_grad.  The weights change at every batch.
TeacherStep ==
    /\ tpc = "batches"
    /\ step < TeacherBatches
    /\ step' = step + 1
    /\ model_weights' = model_weights + 1
    /\ UNCHANGED <<tpc, epoch, eval_acc, best_eval_acc, early_stopping_counter,
                   best_teacher_pth, returned_acc, accs, epoch_end_weights,
                   saves, calls,
                   first_call>>
    /\ TeacherFrame

\* eval_acc = self.evaluate(): total_correct / total_samples, any value the
\* model's predictions produce.
TeacherEvaluate ==
    /\ tpc = "batches"
    /\ step = TeacherBatches
    /\ \E correct \in 0..EvalSamples :
         /\ eval_acc' = correct
         /\ accs' = Append(accs, correct)
    /\ epoch_end_weights' = Append(epoch_end_weights, model_weights)
    /\ tpc' = "check"
    /\ UNCHANGED <<epoch, step, best_eval_acc, early_stopping_counter,
                   model_weights, best_teacher_pth, returned_acc, saves, calls,
                   first_call>>
    /\ TeacherFrame

\* The early stopping check at the end of an epoch, and the break.
EarlyStoppingCheck ==
    /\ tpc = "check"
    /\ IF Improves(eval_acc, best_eval_acc)
         THEN /\ best_eval_acc' = eval_acc
              /\ early_stopping_counter' = 0
              /\ best_teacher_pth' = SaveModel(best_teacher_pth, model_weights)
              /\ saves' = saves + 1
         ELSE /\ early_stopping_counter' = early_stopping_counter + 1
              /\ UNCHANGED <<best_eval_acc, best_teacher_pth, saves>>
    /\ IF StopTriggered(early_stopping_counter')
         THEN /\ tpc' = "return"
              /\ UNCHANGED epoch
         ELSE /\ tpc' = "epoch_begin"
              /\ epoch' = epoch + 1
    /\ UNCHANGED <<step, eval_acc, model_weights, returned_acc, accs,
                   epoch_end_weights, calls,
                   first_call>>
    /\ TeacherFrame

\* `return best_eval_acc`
TeacherReturn ==
    /\ tpc = "return"
    /\ tpc' = "returned"
    /\ returned_acc' = best_eval_acc
    /\ UNCHANGED <<epoch, step, eval_acc, best_eval_acc, early_stopping_counter,
                   model_weights, best_teacher_pth, accs, epoch_end_weights,
                   saves, calls,
                   first_call>>
    /\ TeacherFrame

\* ------------------------------------------- OptimizedDistillationTrainer
Models == {"teacher", "student"}

\* The distillation unit before its trainer is constructed.
DistillIdle ==
    /\ dpc = "idle"
    /\ gradient_accumulation_steps = 1
    /\ num_epochs = 0
    /\ num_batches = 0
    /\ num_training_steps = 0
    /\ num_warmup_steps = 0
    /\ d_epoch = 0
    /\ d_step = 0
    /\ mode = [m \in Models |-> "eval"]
    /\ weights = [m \in Models |-> 0]
    /\ grad = [m \in Models |-> <<>>]
    /\ teacher_outputs = -1
    /\ student_outputs = -1
    /\ loss = <<>>
    /\ scheduler_steps = 0
    /\ best_model_pth = NoFile
    /\ last_step_grad = <<>>
    /\ last_step_batch = -1
    /\ teacher_fwd_modes = {}

\* num_training_steps = len(train_dataloader) * num_epochs
NumTrainingSteps(batches, epochs) == batches * epochs

\* num_warmup_steps = num_training_steps // 10
NumWarmupSteps(training_steps) == training_steps \div 10

\* State after OptimizedDistillationTrainer.__init__, for every accumulation,
\* epoch count, loader length and teacher mode it can be given.  The student is
\* a fresh module (training mode); no gradient exists yet.
DistillConstructed ==
    /\ dpc = "constructed"
    /\ gradient_accumulation_steps \in 1..MaxAccumulation
    /\ num_epochs \in 0..DistillEpochs
    /\ num_batches \in 1..DistillBatches
    /\ num_training_steps = NumTrainingSteps(num_batches, num_epochs)
    /\ num_warmup_steps = NumWarmupSteps(num_training_steps)
    /\ d_epoch = 0
    /\ d_step = 0
    /\ mode \in {[teacher |-> tm, student |-> "train"] : tm \in {"train", "eval"}}
    /\ weights = [m \in Models |-> 0]
    /\ grad = [m \in Models |-> <<>>]
    /\ teacher_outputs = -1
    /\ student_outputs = -1
    /\ loss = <<>>
    /\ scheduler_steps = 0
    /\ best_model_pth = NoFile
    /\ last_step_grad = <<>>
    /\ last_step_batch = -1
    /\ teacher_fwd_modes = {}

\* The batch at hand, counted over the whole run.
Batch == d_epoch * num_batches + d_step

\* self.teacher_model.eval()
EvalMode(m) == "eval"

\* `with torch.no_grad():` around the teacher forward pass: the teacher's
\* outputs carry no autograd graph (mutant: the context is missing).
TeacherGraphRecorded == TRUE

TeacherInGraph == FALSE

\* The modules loss.backward() reaches: the student, whose forward pass ran with
\* gradients enabled, and the teacher only if its outputs carry a graph.
BackwardModels == {"student"} \cup (IF TeacherInGraph THEN {"teacher"} ELSE {})

\* torch.optim.AdamW(student_model.parameters(), ...): the optimizer's parameters.
OptimizerModels == {"student"}

\* `if (step + 1) % self.gradient_accumulation_steps == 0`
\* (mutant: the step index is tested, not the count of batches).
ShouldStepOnIndex(s, n) == s % n = 0

ShouldStep(s, n) == (s + 1) % n = 0

\* self.optimizer.zero_grad()
ZeroGrad(g) == <<>>

\* train() is entered: best_eval_acc = 0.
DistillCallTrain ==
    /\ dpc = "constructed"
    /\ dpc' = "epoch"
    /\ d_epoch' = 0
    /\ UNCHANGED <<gradient_accumulation_steps, num_epochs, num_batches,
                   num_training_steps, num_warmup_steps, d_step, mode, weights, grad,
                   teacher_outputs, student_outputs, loss, scheduler_steps,
                   best_model_pth, last_step_grad, last_step_batch,
                   teacher_fwd_modes>>
    /\ DistillFrame

\* Head of `for epoch in range(self.num_epochs)`: student_model.train(),
\* teacher_model.eval(), total_loss = 0; or the range is empty and train() returns.
DistillEpochBegin ==
    /\ dpc = "epoch"
    /\ IF d_epoch < num_epochs
         THEN /\ dpc' = "batch"
              /\ mode' = [mode EXCEPT !["student"] = "train",
                                      !["teacher"] = EvalMode(mode["teacher"])]
              /\ d_step' = 0
         ELSE /\ dpc' = "returned"
              /\ UNCHANGED <<mode, d_step>>
    /\ UNCHANGED <<gradient_accumulation_steps, num_epochs, num_batches,
                   num_training_steps, num_warmup_steps, d_epoch, weights, grad,
                   teacher_outputs, student_outputs, loss, scheduler_steps,
                   best_model_pth, last_step_grad, last_step_batch,
                   teacher_fwd_modes>>
    /\ DistillFrame

\* Head of `for step, batch in enumerate(progress_bar)`: the next batch is moved
\* to the device, or the loader is exhausted and the evaluation follows.
DistillBatchBegin ==
    /\ dpc = "batch"
    /\ dpc' = IF d_step < num_batches THEN "teacher_forward" ELSE "evaluate"
    /\ UNCHANGED <<gradient_accumulation_steps, num_epochs, num_batches,
                   num_training_steps, num_warmup_steps, d_epoch, d_step, mode,
                   weights, grad, teacher_outputs, student_outputs, loss,
                   scheduler_steps, best_model_pth, last_step_grad, last_step_batch,
                   teacher_fwd_modes>>
    /\ DistillFrame

\* teacher_outputs = self.teacher_model(**batch), under torch.no_grad().
TeacherForward ==
    /\ dpc = "teacher_forward"
    /\ teacher_outputs' = Batch
    /\ teacher_fwd_modes' = teacher_fwd_modes \cup {mode["teacher"]}
    /\ dpc' = "student_forward"
    /\ UNCHANGED <<gradient_accumulation_steps, num_epochs, num_batches,
                   num_training_steps, num_warmup_steps, d_epoch, d_step, mode,
                   weights, grad, student_outputs, loss, scheduler_steps,
                   best_model_pth, last_step_grad, last_step_batch>>
    /\ DistillFrame

\* student_outputs = self.student_model(**batch);
\* loss = compute_loss(student logits, teacher logits, labels) / accumulation.
StudentForward ==
    /\ dpc = "student_forward"
    /\ student_outputs' = Batch
    /\ loss' = <<[student |-> Batch, teacher |-> teacher_outputs,
                  divisor |-> gradient_accumulation_steps]>>
    /\ dpc' = "backward"
    /\ UNCHANGED <<gradient_accumulation_steps, num_epochs, num_batches,
                   num_training_steps, num_warmup_steps, d_epoch, d_step, mode,
                   weights, grad, teacher_outputs, scheduler_steps, best_model_pth,
                   last_step_grad, last_step_batch, teacher_fwd_modes>>
    /\ DistillFrame

\* loss.backward(): the gradient of the loss is added to the .grad of every
\* module the loss's graph reaches.
Backward ==
    /\ dpc = "backward"
    /\ grad' = [m \in Models |->
                  IF m \in BackwardModels THEN grad[m] \o loss ELSE grad[m]]
    /\ dpc' = "accumulate"
    /\ UNCHANGED <<gradient_accumulation_steps, num_epochs, num_batches,
                   num_training_steps, num_warmup_steps, d_epoch, d_step, mode,
                   weights, teacher_outputs, student_outputs, loss, scheduler_steps,
                   best_model_pth, last_step_grad, last_step_batch,
                   teacher_fwd_modes>>
    /\ DistillFrame

\* The gradient accumulation test.  On a hit: clip_grad_norm_ over the student's
\* parameters (the accumulated sum is rescaled, the losses in it stay the same),
\* optimizer.step() (AdamW skips a parameter without gradient), scheduler.step(),
\* optimizer.zero_grad().  Then total_loss and the progress bar, and the next batch.
AccumulationStep ==
    /\ dpc = "accumulate"
    /\ IF ShouldStep(d_step, gradient_accumulation_steps)
         THEN /\ weights' = [m \in Models |->
                               IF m \in OptimizerModels /\ grad[m] # <<>>
                                 THEN weights[m] + 1 ELSE weights[m]]
              /\ last_step_grad' = grad["student"]
              /\ last_step_batch' = Batch
              /\ scheduler_steps' = scheduler_steps + 1
              /\ grad' = [m \in Models |->
                            IF m \in OptimizerModels THEN ZeroGrad(grad[m])
                                                     ELSE grad[m]]
         ELSE UNCHANGED <<weights, last_step_grad, last_step_batch,
                          scheduler_steps, grad>>
    /\ d_step' = d_step + 1
    /\ dpc' = "batch"
    /\ UNCHANGED <<gradient_accumulation_steps, num_epochs, num_batches,
                   num_training_steps, num_warmup_steps, d_epoch, mode,
                   teacher_outputs, student_outputs, loss, best_model_pth,
                   teacher_fwd_modes>>
    /\ DistillFrame

\* eval_acc = self.evaluate(): student_model.eval(), total_correct = 0,
\* total_samples = 0, and then `range(self.num_labels)`: __init__ assigns no
\* num_labels to the trainer and the class defines none, so the attribute lookup
\* raises AttributeError, which nothing catches: train() ends here, in the first
\* epoch.  The rest of evaluate(), the comparison with best_eval_acc, save_model()
\* and the next epoch are never reached.
DistillEvaluate ==
    /\ dpc = "evaluate"
    /\ mode' = [mode EXCEPT !["student"] = "eval"]
    /\ dpc' = "raised"
    /\ UNCHANGED <<gradient_accumulation_steps, num_epochs, num_batches,
                   num_training_steps, num_warmup_steps, d_epoch, d_step, weights,
                   grad, teacher_outputs, student_outputs, loss, scheduler_steps,
                   best_model_pth, last_step_grad, last_step_batch,
                   teacher_fwd_modes>>
    /\ DistillFrame

\* ------------- MambaForSequenceClassification.__init__, TeacherTrainer.__init__
\* A parameter tensor is named by its owner and its place in parameters():
\* <<"mamba", i>> is the i-th tensor of the base model, counted from 1.
BaseParam(i) == <<"mamba", i>>

\* projection (weight, bias) and classifier (two Linear layers: weight, bias each).
ProjectionParams == {<<"projection", i>> : i \in 1..2}

ClassifierParams == {<<"classifier", i>> : i \in 1..4}

\* The construction unit before a base model is given.
FreezeIdle ==
    /\ fpc = "idle"
    /\ initial_requires_grad = <<>>
    /\ requires_grad = <<>>
    /\ freeze_next = 1
    /\ head_params = {}
    /\ param_groups = <<>>

\* A base model with up to MaxParams parameter tensors, each trainable or not.
BaseModelGiven ==
    /\ fpc = "freeze"
    /\ \E P \in 0..MaxParams : initial_requires_grad \in [1..P -> BOOLEAN]
    /\ requires_grad = initial_requires_grad
    /\ freeze_next = 1
    /\ head_params = {}
    /\ param_groups = <<>>

\* Python's list[:stop] on a list of length n: the positions (from 1) it keeps.
\* A negative stop counts from the end.
SliceTo(n, stop) ==
    IF stop >= 0 THEN 1..(IF stop < n THEN stop ELSE n)
    ELSE 1..(IF n + stop > 0 THEN n + stop ELSE 0)

\* Python's list[start:] for a negative start on a list of length n.
SliceFromEnd(n, start) ==
    ((IF n + start > 0 THEN n + start ELSE 0) + 1)..n

\* list(base_model.parameters())[:(total_layers - 2)]
FrozenSlice(total_layers) == SliceTo(total_layers, total_layers - 2)

\* list(model.mamba.parameters())[-2:]  (mutant: the last three tensors).
LastThreeParams(total_layers) == SliceFromEnd(total_layers, -3)

PretrainedParams(total_layers) == SliceFromEnd(total_layers, -2)

\* The learning rate of a group, in tenths of learning_rate.
ClassifierLr == 10

\* learning_rate * 0.1
PretrainedLr == 1

\* One iteration of the freezing loop: param.requires_grad = False; or the slice
\* is exhausted and projection and classifier are created.
FreezeParam ==
    /\ fpc = "freeze"
    /\ IF freeze_next \in FrozenSlice(Len(requires_grad))
         THEN /\ requires_grad' = [requires_grad EXCEPT ![freeze_next] = FALSE]
              /\ freeze_next' = freeze_next + 1
              /\ UNCHANGED <<fpc, head_params>>
         ELSE /\ head_params' = ProjectionParams \cup ClassifierParams
              /\ fpc' = "constructed"
              /\ UNCHANGED <<requires_grad, freeze_next>>
    /\ UNCHANGED <<initial_requires_grad, param_groups>>
    /\ FreezeFrame

\* TeacherTrainer.__init__: the two parameter groups of AdamW.
TeacherOptimizer ==
    /\ fpc = "constructed"
    /\ param_groups' =
         << [params |-> ClassifierParams \cup ProjectionParams, lr |-> ClassifierLr],
            [params |-> {BaseParam(i) : i \in PretrainedParams(Len(requires_grad))},
             lr |-> PretrainedLr] >>
    /\ fpc' = "optimizer"
    /\ UNCHANGED <<initial_requires_grad, requires_grad, freeze_next, head_params>>
    /\ FreezeFrame

\* ------------------------------------------ the per-class prediction reports
\* The three places that print a per-class distribution: evaluate() of the
\* distillation trainer, and main's teacher and student statistics, which run one
\* after the other over the same eval_dataloader.
Classes == 0..(NUM_LABELS - 1)

\* The report unit before any report code runs.
ReportIdle ==
    /\ rpc = "idle"
    /\ eval_set = 0
    /\ batch_start = 0
    /\ in_batch = 0
    /\ label_counts = <<>>
    /\ total_samples = 0
    /\ reports = <<>>

\* A non-empty evaluation set, and the report code about to run: evaluate() is
\* called, or main's overall statistics (lines 509-549) are entered.  The block
\* in main is taken on its own: main gets there only once
\* distillation_trainer.train() (line 476) has returned.
ReportStart ==
    /\ rpc \in {"evaluate", "main_teacher"}
    /\ eval_set \in 1..ReportSamples
    /\ batch_start = 0
    /\ in_batch = 0
    /\ label_counts = <<>>
    /\ total_samples = 0
    /\ reports = <<>>

\* The logits of one sample: one value per class.
LogitRows == [Classes -> {0, 1}]

\* argmax(dim=-1) of a row of logits: the first class with the largest value.
Argmax(row) ==
    CHOOSE c \in Classes :
        /\ \A d \in Classes : row[d] <= row[c]
        /\ \A d \in Classes : d < c => row[d] < row[c]

\* Size of the batch that starts after `start` samples of a set of n samples:
\* batch_size, or what is left in the last batch.
BatchLen(n, start) ==
    IF n - start < ReportBatchSize THEN n - start ELSE ReportBatchSize

\* total_samples += predictions.size(0), main's teacher pass.
AddBatch(total, size) == total + size

\* label_counts = {i: 0 for i in range(NUM_LABELS)}
ZeroCounts == [c \in Classes |-> 0]

\* label_counts[pred] += 1: a key that is missing raises KeyError, which no
\* prediction can cause here.  One prediction of the current batch is tallied.
Tally ==
    /\ in_batch < BatchLen(eval_set, batch_start)
    /\ \E row \in LogitRows :
         LET pred == Argmax(row) IN
         /\ pred \in DOMAIN label_counts
         /\ label_counts' = [label_counts EXCEPT ![pred] = @ + 1]
    /\ in_batch' = in_batch + 1
    /\ UNCHANGED <<rpc, eval_set, batch_start, total_samples, reports>>

\* The distribution is printed: for every label its count and
\* count / total_samples * 100.
PrintDistribution(who) ==
    reports' = Append(reports, [who |-> who, counts |-> label_counts,
                                total |-> total_samples])

\* evaluate(): student_model.eval(), total_correct = 0, total_samples = 0, then
\* range(self.num_labels) raises AttributeError (the trainer has no num_labels):
\* label_counts is never bound and nothing is printed.
EvaluateReport ==
    /\ rpc = "evaluate"
    /\ total_samples' = 0
    /\ rpc' = "raised"
    /\ UNCHANGED <<eval_set, batch_start, in_batch, label_counts, reports>>
    /\ ReportFrame

\* main: teacher_model.eval(), label_counts zeroed, total_samples = 0.
MainTeacherBegin ==
    /\ rpc = "main_teacher"
    /\ label_counts' = ZeroCounts
    /\ total_samples' = 0
    /\ batch_start' = 0
    /\ in_batch' = 0
    /\ rpc' = "main_teacher_loop"
    /\ UNCHANGED <<eval_set, reports>>
    /\ ReportFrame

\* main, teacher pass: one prediction of the batch tallied.
MainTeacherTally ==
    /\ rpc = "main_teacher_loop"
    /\ batch_start < eval_set
    /\ Tally
    /\ ReportFrame

\* main, teacher pass: the batch is done, total_samples += predictions.size(0).
MainTeacherBatchEnd ==
    /\ rpc = "main_teacher_loop"
    /\ batch_start < eval_set
    /\ in_batch = BatchLen(eval_set, batch_start)
    /\ total_samples' = AddBatch(total_samples, in_batch)
    /\ batch_start' = batch_start + in_batch
    /\ in_batch' = 0
    /\ UNCHANGED <<rpc, eval_set, label_counts, reports>>
    /\ ReportFrame

\* main: the teacher's distribution is printed; then student_model.eval() and
\* label_counts zeroed again.  total_samples keeps the teacher pass's value.
MainTeacherPrint ==
    /\ rpc = "main_teacher_loop"
    /\ batch_start = eval_set
    /\ PrintDistribution("teacher")
    /\ label_counts' = ZeroCounts
    /\ batch_start' = 0
    /\ in_batch' = 0
    /\ rpc' = "main_student_loop"
    /\ UNCHANGED <<eval_set, total_samples>>
    /\ ReportFrame

\* main, student pass: one prediction of the batch tallied.
MainStudentTally ==
    /\ rpc = "main_student_loop"
    /\ batch_start < eval_set
    /\ Tally
    /\ ReportFrame

\* main, student pass: the batch is done; total_samples is not touched.
MainStudentBatchEnd ==
    /\ rpc = "main_student_loop"
    /\ batch_start < eval_set
    /\ in_batch = BatchLen(eval_set, batch_start)
    /\ batch_start' = batch_start + in_batch
    /\ in_batch' = 0
    /\ UNCHANGED <<rpc, eval_set, label_counts, total_samples, reports>>
    /\ ReportFrame

\* main: the student's distribution is printed, against the teacher pass's
\* total_samples.
MainStudentPrint ==
    /\ rpc = "main_student_loop"
    /\ batch_start = eval_set
    /\ PrintDistribution("student")
    /\ rpc' = "done"
    /\ UNCHANGED <<eval_set, batch_start, in_batch, label_counts, total_samples>>
    /\ ReportFrame

\* ------------------------------------------------------------ compute_loss
\* Float tensors are fixed-point numbers: the integer v stands for v / Scale.
Scale == 1000

\* Integer quotient rounded toward zero, b > 0: like float rounding it is
\* symmetric, Quot(-a, b) = -Quot(a, b).
Quot(a, b) == IF a >= 0 THEN a \div b ELSE -((-a) \div b)

\* a * b and a / b of two fixed-point numbers.
Mul(a, b) == Quot(a * b, Scale)

Div(a, b) == Quot(a * Scale, b)

\* e^y for y >= 0, by its power series, summed until the terms vanish.
RECURSIVE ExpSeries(_, _, _)
ExpSeries(y, term, k) ==
    IF term = 0 THEN 0
    ELSE term + ExpSeries(y, (term * y) \div (k * Scale), k + 1)

Exp(x) ==
    IF x >= 0 THEN ExpSeries(x, Scale, 1)
    ELSE (Scale * Scale) \div ExpSeries(-x, Scale, 1)

\* ln(v) for 1 <= v < e^2: the largest z with e^z <= v, by bisection.
RECURSIVE LnSearch(_, _, _)
LnSearch(v, lo, hi) ==
    IF lo = hi THEN lo
    ELSE LET mid == (lo + hi + 1) \div 2
         IN IF Exp(mid) <= v THEN LnSearch(v, mid, hi)
                             ELSE LnSearch(v, lo, mid - 1)

Ln(v) == LnSearch(v, 0, 2 * Scale)

RECURSIVE SeqSum(_)
SeqSum(q) == IF q = <<>> THEN 0 ELSE Head(q) + SeqSum(Tail(q))

\* The largest entry of a row of logits.
RowMax(row) == CHOOSE m \in {row[c] : c \in DOMAIN row} :
                  \A c \in DOMAIN row : row[c] <= m

\* sum over the classes of e^(x - max), the denominator of softmax.
ExpSum(row) ==
    LET m == RowMax(row) IN SeqSum([c \in DOMAIN row |-> Exp(row[c] - m)])

\* F.softmax(row, dim=-1)
Softmax(row) ==
    LET m == RowMax(row)
        total == ExpSum(row)
    IN [c \in DOMAIN row |-> Div(Exp(row[c] - m), total)]

\* F.log_softmax(row, dim=-1)
LogSoftmax(row) ==
    LET m == RowMax(row)
        log_total == Ln(ExpSum(row))
    IN [c \in DOMAIN row |-> (row[c] - m) - log_total]

\* tensor.mean() over the batch.
Mean(q) == Quot(SeqSum(q), Len(q))

\* F.cross_entropy(logits, labels): the mean over the batch of
\* -log_softmax(logits)[label].
CrossEntropy(logits, labs) ==
    Mean([b \in DOMAIN logits |-> -(LogSoftmax(logits[b])[labs[b] + 1])])

\* logits / temperature
Scaled(logits, T) ==
    [b \in DOMAIN logits |-> [c \in DOMAIN logits[b] |-> Div(logits[b][c], T)]]

\* temperature ** 2 (mutant: the factor is left out).
TemperatureFactorOmitted(T) == Scale

TemperatureSquared(T) == Mul(T, T)

\* compute_loss(student_logits, teacher_logits, labels, temperature, alpha)
compute_loss(s_logits, t_logits, labs, T, a) ==
    LET student_scaled == Scaled(s_logits, T)
        teacher_scaled == Scaled(t_logits, T)
        soft_targets == [b \in DOMAIN t_logits |-> Softmax(teacher_scaled[b])]
        student_log_probs ==
            [b \in DOMAIN s_logits |-> LogSoftmax(student_scaled[b])]
        soft_loss ==
            -Mean([b \in DOMAIN s_logits |->
                     SeqSum([c \in DOMAIN s_logits[b] |->
                               Mul(soft_targets[b][c], student_log_probs[b][c])])])
        hard_loss == CrossEntropy(s_logits, labs)
    IN Mul(Mul(a, TemperatureSquared(T)), soft_loss) + Mul(Scale - a, hard_loss)

\* Rows of logits of a three-class problem.
LossRows ==
    { <<0, 0, 0>>, <<2 * Scale, 0, 0>>, <<0, 2 * Scale, Scale>>,
      <<Scale, 3 * Scale, 0>> }

\* Batches of one or two samples.
LossBatches == UNION {[1..n -> LossRows] : n \in 1..2}

Temperatures == {t * Scale : t \in 1..MaxTemperature}

Alphas == {(k * Scale) \div AlphaSteps : k \in 0..AlphaSteps}

\* The loss unit before compute_loss is called.
LossIdle ==
    /\ lpc = "idle"
    /\ student_logits = <<>>
    /\ teacher_logits = <<>>
    /\ labels = <<>>
    /\ temperature = Scale
    /\ alpha = 0
    /\ loss_value = 0

\* compute_loss is called on a batch of logits of student and teacher, labels,
\* a temperature and an alpha.
LossCalled ==
    /\ lpc = "call"
    /\ student_logits \in LossBatches
    /\ teacher_logits \in [1..Len(student_logits) -> LossRows]
    /\ labels \in [1..Len(student_logits) -> 0..2]
    /\ temperature \in Temperatures
    /\ alpha \in Alphas
    /\ loss_value = 0

\* compute_loss runs and returns.
ComputeLoss ==
    /\ lpc = "call"
    /\ loss_value' = compute_loss(student_logits, teacher_logits, labels,
                                  temperature, alpha)
    /\ lpc' = "done"
    /\ UNCHANGED <<student_logits, teacher_logits, labels, temperature, alpha>>
    /\ LossFrame

\* ---------------------------------------------------------- specifications
InitTeacher == TeacherIdle /\ DistillIdle /\ FreezeIdle /\ ReportIdle /\ LossIdle

NextTeacher ==
    \/ CallTrain
    \/ EpochBegin
    \/ TeacherStep
    \/ TeacherEvaluate
    \/ EarlyStoppingCheck
    \/ TeacherReturn

SpecTeacher == InitTeacher /\ [][NextTeacher]_vars

\* main's teacher fine-tuning: train() twice, then the checkpoint is loaded.
NextMain ==
    \/ NextTeacher
    \/ CallTrainAgain
    \/ MainLoadTeacher

SpecMain == InitTeacher /\ [][NextMain]_vars

InitDistill == TeacherIdle /\ DistillConstructed /\ FreezeIdle /\ ReportIdle /\ LossIdle

NextDistill ==
    \/ DistillCallTrain
    \/ DistillEpochBegin
    \/ DistillBatchBegin
    \/ TeacherForward
    \/ StudentForward
    \/ Backward
    \/ AccumulationStep
    \/ DistillEvaluate

SpecDistill == InitDistill /\ [][NextDistill]_vars

InitFreeze == TeacherIdle /\ DistillIdle /\ BaseModelGiven /\ ReportIdle /\ LossIdle

NextFreeze ==
    \/ FreezeParam
    \/ TeacherOptimizer

SpecFreeze == InitFreeze /\ [][NextFreeze]_vars

InitReport == TeacherIdle /\ DistillIdle /\ FreezeIdle /\ ReportStart /\ LossIdle

NextReport ==
    \/ EvaluateReport
    \/ MainTeacherBegin
    \/ MainTeacherTally
    \/ MainTeacherBatchEnd
    \/ MainTeacherPrint
    \/ MainStudentTally
    \/ MainStudentBatchEnd
    \/ MainStudentPrint

SpecReport == InitReport /\ [][NextReport]_vars

InitLoss == TeacherIdle /\ DistillIdle /\ FreezeIdle /\ ReportIdle /\ LossCalled

NextLoss == ComputeLoss

SpecLoss == InitLoss /\ [][NextLoss]_vars

\* ------------------------------------------------ TeacherTrainer: properties
\* best_eval_acc as it stands when epoch k (1-based) of history h is judged:
\* the largest earlier accuracy, and 0 when there is none.
BestBefore(h, k) == SeqMax(SubSeq(h, 1, k - 1))

NonImproving(h, k) == ~(h[k] > BestBefore(h, k))

\* Length of the run of non-improving epochs that ends history h.
TrailingNonImproving(h) ==
    Cardinality({n \in 1..Len(h) :
                    \A k \in (Len(h) - n + 1)..Len(h) : NonImproving(h, k)})

\* The earliest epoch of h whose accuracy is the maximum of h.
FirstArgMax(h) ==
    CHOOSE k \in 1..Len(h) :
        /\ \A j \in 1..Len(h) : h[j] <= h[k]
        /\ \A j \in 1..(k - 1) : h[j] < h[k]

\* C1: the early-stopping counter is 0 after an epoch whose accuracy strictly
\* exceeds the best so far and one more otherwise, so after every epoch it is the
\* length of the current run of non-improving epochs; the loop goes on while the
\* run is shorter than the patience and epochs remain, and it is left right
\* after the first epoch at which the run reaches patience = 3, or after
\* num_epochs epochs.
C1_EarlyStopping ==
    /\ tpc \notin {"constructed", "check"}
         => early_stopping_counter = TrailingNonImproving(accs)
    /\ \A k \in 1..(Len(accs) - 1) :
         TrailingNonImproving(SubSeq(accs, 1, k)) < early_stopping_patience
    /\ tpc \in {"epoch_begin", "batches"}
         => TrailingNonImproving(accs) < early_stopping_patience
    /\ tpc \in {"return", "returned"}
         => \/ TrailingNonImproving(accs) = early_stopping_patience
            \/ Len(accs) = TeacherEpochs
    /\ Len(accs) <= TeacherEpochs

\* The accuracies 0.5, 0.6, 0.55, 0.55, 0.55 (as 1/3 < 2/3 < 3/3 in the order
\* 1, 3, 2, 2, 2): train() has returned after the fifth epoch of six.
C1_Witness ==
    /\ tpc = "returned"
    /\ accs = <<1, 3, 2, 2, 2>>
    /\ early_stopping_counter = early_stopping_patience
    /\ Len(accs) < TeacherEpochs

\* C2: when train() has returned, the returned value is the maximum accuracy of
\* the epochs that ran and best_teacher.pth holds the weights of the end of the
\* earliest epoch that achieved it.
C2_ReturnsBestAndSavesBest ==
    (tpc = "returned" /\ Len(accs) >= 1)
        => /\ returned_acc = SeqMax(accs)
           /\ best_teacher_pth = epoch_end_weights[FirstArgMax(accs)]

\* C10: when train() has returned after at least one epoch, save_model() has
\* been called at least once by that call and the checkpoint file exists.
C10_CheckpointWritten ==
    (tpc = "returned" /\ Len(accs) >= 1)
        => saves >= 1 /\ best_teacher_pth # NoFile

\* The part of C2 and C10 the code does satisfy: both hold of every call in
\* which some epoch has an accuracy above 0.
TeacherSavesBestWhenPositive ==
    (tpc = "returned" /\ SeqMax(accs) > 0)
        => /\ returned_acc = SeqMax(accs)
           /\ best_teacher_pth = epoch_end_weights[FirstArgMax(accs)]
           /\ saves >= 1

\* ------------------------------------------- main's two calls: properties
\* The highest evaluation accuracy over the epochs of both calls of train(),
\* once the second call is under way.
OverallBest ==
    IF first_call.best > SeqMax(accs) THEN first_call.best ELSE SeqMax(accs)

\* The weights at the end of the epochs, of either call, that reached it.
OverallBestWeights ==
    (IF first_call.best = OverallBest THEN first_call.weights ELSE {})
        \cup (IF SeqMax(accs) = OverallBest
                THEN BestEpochWeights(accs, epoch_end_weights) ELSE {})

\* The checkpoint main loads holds the weights of an epoch that reached the
\* highest accuracy of both calls.
LoadedIsOverallBest ==
    tpc = "loaded" => model_weights \in OverallBestWeights

\* The best_teacher_acc main prints is the highest accuracy of both calls.
ReportedIsOverallBest ==
    (calls = 2 /\ tpc \in {"returned", "loaded"}) => returned_acc = OverallBest

\* While every epoch of the second call is worse than the best of the first,
\* the checkpoint still holds the weights of a best epoch of the first call.
NoOverwriteByWorse ==
    (calls = 2 /\ tpc \in {"epoch_begin", "return", "returned"}
               /\ best_teacher_pth # NoFile
               /\ first_call.best > SeqMax(accs))
        => best_teacher_pth \in first_call.weights

\* C11: with train() called twice by main, the checkpoint loaded for the
\* distillation holds the weights of the epoch with the highest accuracy over
\* the epochs of both calls, best_teacher_acc is that accuracy, and no later
\* epoch of lower accuracy overwrites the checkpoint of an earlier, better one.
C11_BestOverBothCalls ==
    /\ LoadedIsOverallBest
    /\ ReportedIsOverallBest
    /\ NoOverwriteByWorse

\* What main does get: the second call starts again from best_eval_acc = 0, so
\* best_teacher_acc is the best accuracy of the second call alone, and the
\* checkpoint loaded is that of the second call's best epoch, or the one the
\* first call left when the second call never exceeded 0.
MainLoadsSecondCallBest ==
    tpc = "loaded"
        => /\ returned_acc = SeqMax(accs)
           /\ SeqMax(accs) > 0
                => model_weights = epoch_end_weights[FirstArgMax(accs)]
           /\ SeqMax(accs) = 0 => model_weights \in first_call.weights

\* The first call's best epoch (accuracy 2) is overwritten by the first epoch
\* of the second call (accuracy 1), and that checkpoint is loaded.
SecondCallOverwrites ==
    /\ tpc = "loaded"
    /\ first_call.best = 2
    /\ accs = <<1, 1, 1, 1>>
    /\ model_weights = epoch_end_weights[1]
    /\ returned_acc = 1

\* ---------------------------------- OptimizedDistillationTrainer: properties
\* train() has ended, by returning or by an exception leaving it.
DistillEnded == dpc \in {"returned", "raised"}

\* C3: train() runs all num_epochs epochs with no early exit: it ends only by
\* returning, after num_epochs epochs, each closed by a completed evaluation.
C3_RunsEveryEpoch ==
    /\ dpc # "raised"
    /\ dpc = "returned" => d_epoch = num_epochs

C5_SchedulerSpansRun ==
    /\ dpc = "evaluate" => scheduler_steps = (d_epoch + 1) * num_batches
    /\ dpc = "returned" => scheduler_steps = num_training_steps

\* What the scheduler does do: one step per gradient_accumulation_steps batches
\* of the epoch, the remainder of the epoch's batches dropped.
SchedulerStepsPerUpdate ==
    dpc \in {"batch", "evaluate", "raised"}
        => scheduler_steps = d_step \div gradient_accumulation_steps

\* C9: no step of train() changes a teacher weight or leaves a gradient in the
\* teacher, the teacher is in eval mode at each of its forward passes, the
\* teacher's forward pass on a batch precedes the student's, and the teacher's
\* checkpoint file is not written.
C9_TeacherFrozen ==
    /\ weights["teacher"] = 0
    /\ grad["teacher"] = <<>>
    /\ teacher_fwd_modes \subseteq {"eval"}
    /\ student_outputs <= teacher_outputs
    /\ \A i \in 1..Len(loss) : loss[i].teacher = loss[i].student
    /\ best_teacher_pth = NoFile

\* The student has been updated twice from losses against the teacher's
\* outputs, and the batch loop has ended.
C9_Witness ==
    /\ weights["student"] = 2
    /\ teacher_fwd_modes = {"eval"}
    /\ teacher_outputs = student_outputs
    /\ student_outputs >= 1
    /\ DistillEnded

\* ------------------------------------------------- construction: properties
\* The base model was given with every parameter tensor trainable.
AllInitiallyTrainable ==
    \A i \in 1..Len(initial_requires_grad) : initial_requires_grad[i]

\* The tensors of the base model that some parameter group of the optimizer holds.
BaseParamsInOptimizer ==
    {i \in 1..Len(requires_grad) :
        \E g \in 1..Len(param_groups) : BaseParam(i) \in param_groups[g].params}

\* C6: for a base model of P >= 2 parameter tensors, all trainable, the
\* construction leaves exactly the first P - 2 with requires_grad = False and the
\* last 2 with requires_grad = True, and the base tensors in TeacherTrainer's
\* optimizer are exactly the trainable ones, all in the group at lr * 0.1.
C6_FreezeAllButLastTwo ==
    LET P == Len(requires_grad) IN
    (P >= 2 /\ AllInitiallyTrainable) =>
        /\ fpc \in {"constructed", "optimizer"}
             => \A i \in 1..P : requires_grad[i] = (i > P - 2)
        /\ fpc = "optimizer"
             => /\ BaseParamsInOptimizer = {i \in 1..P : requires_grad[i]}
                /\ \A i \in BaseParamsInOptimizer :
                     /\ BaseParam(i) \in param_groups[2].params
                     /\ BaseParam(i) \notin param_groups[1].params
                /\ param_groups[2].lr * 10 = param_groups[1].lr

\* A base model of four trainable tensors: two frozen, two in the optimizer.
C6_Witness ==
    /\ fpc = "optimizer"
    /\ initial_requires_grad = <<TRUE, TRUE, TRUE, TRUE>>
    /\ requires_grad = <<FALSE, FALSE, TRUE, TRUE>>
    /\ BaseParamsInOptimizer = {3, 4}

\* ------------------------------------------------------ reports: properties
RECURSIVE SumCounts(_, _)
SumCounts(counts, cs) ==
    IF cs = {} THEN 0
    ELSE LET c == CHOOSE x \in cs : TRUE
         IN counts[c] + SumCounts(counts, cs \ {c})

\* Every distribution that is printed tallies the classes 0..NUM_LABELS-1, has
\* the size of the (non-empty) evaluation set as its denominator total_samples,
\* and its per-class counts sum to that denominator.
PrintedReportsSumToTotal ==
    \A i \in 1..Len(reports) :
        /\ DOMAIN reports[i].counts = Classes
        /\ reports[i].total = eval_set
        /\ reports[i].total >= 1
        /\ SumCounts(reports[i].counts, Classes) = reports[i].total

\* Both of main's distributions are printed for a set of three samples in two
\* batches, the student's with two classes predicted.
MainReportsPrinted ==
    /\ rpc = "done"
    /\ eval_set = 3
    /\ Len(reports) = 2
    /\ reports[2].who = "student"
    /\ reports[2].counts[1] = 2
    /\ reports[2].counts[5] = 1

\* evaluate() prints no distribution: it ends in AttributeError first.
EvaluatePrintsNothing ==
    rpc = "raised" => reports = <<>>

\* The report code has run to its end, by returning or by raising.
ReportEnded == rpc \in {"raised", "done"}

\* C8: each of the three reports (evaluate(), main's teacher and student
\* statistics), run on a non-empty evaluation set, prints a distribution over
\* the classes 0..NUM_LABELS-1 whose counts sum to the total_samples used as
\* the denominator, so that the percentages sum to 100%.
C8_EveryReportSumsToTotal ==
    /\ PrintedReportsSumToTotal
    /\ ReportEnded => reports # <<>>

\* ------------------------------------------------- compute_loss: properties
\* The soft-label cross-entropy of the student against the teacher's softened
\* distribution, computed directly: the mean over the batch of
\* -sum_c softmax(teacher / T)[c] * log_softmax(student / T)[c].
SoftLabelCrossEntropy(s_logits, t_logits, T) ==
    Mean([b \in DOMAIN s_logits |->
            LET p == Softmax([c \in DOMAIN t_logits[b] |-> Div(t_logits[b][c], T)])
                log_q == LogSoftmax([c \in DOMAIN s_logits[b] |->
                                       Div(s_logits[b][c], T)])
            IN -SeqSum([c \in DOMAIN s_logits[b] |-> Mul(p[c], log_q[c])])])

SoftLoss == SoftLabelCrossEntropy(student_logits, teacher_logits, temperature)

\* The plain label cross-entropy of the student: it reads no teacher logits.
HardLoss == CrossEntropy(student_logits, labels)

\* C7 as stated: the loss is alpha * T^2 * softLoss + (1 - alpha) * hardLoss;
\* with alpha = 1 it is softLoss, and with alpha = 0 it is hardLoss, a value that
\* does not depend on the teacher's logits, at every temperature.
C7_AlphaOneIsSoftLoss ==
    lpc = "done" =>
        /\ loss_value = Mul(Mul(alpha, Mul(temperature, temperature)), SoftLoss)
                          + Mul(Scale - alpha, HardLoss)
        /\ alpha = Scale => loss_value = SoftLoss
        /\ alpha = 0 => loss_value = HardLoss

\* C7 as amended: with alpha = 1 the loss is T^2 * softLoss, which is softLoss
\* at temperature 1 only.
C7_AlphaOneIsScaledSoftLoss ==
    lpc = "done" =>
        /\ loss_value = Mul(Mul(alpha, Mul(temperature, temperature)), SoftLoss)
                          + Mul(Scale - alpha, HardLoss)
        /\ alpha = Scale
             => /\ loss_value = Mul(Mul(temperature, temperature), SoftLoss)
                /\ temperature = Scale => loss_value = SoftLoss
                /\ temperature > Scale => loss_value > SoftLoss
        /\ alpha = 0 => loss_value = HardLoss

\* alpha = 1 at the default temperature 2.0 on a batch of two samples: the loss
\* is four times the soft-label cross-entropy.
C7_Witness ==
    /\ lpc = "done"
    /\ alpha = Scale
    /\ temperature = 2 * Scale
    /\ Len(student_logits) = 2
    /\ student_logits # teacher_logits
    /\ loss_value = 4 * SoftLoss
    /\ SoftLoss > 0

====
